---- MODULE Spec2Model ----
(***************************************************************************)
(* A model of agent.py: the start-up guard, the interactive loop main(),   *)
(* form_crew / set_llm, and the web search tool SearchTool._run.           *)
(*                                                                         *)
(* Python strings the code inspects character by character (the typed      *)
(* line, the two credentials) are sequences of one-character strings.      *)
(* Strings the code only copies (titles, URLs, answers, messages) are      *)
(* TLA+ strings.  The string a call returns is the sequence of the pieces  *)
(* the f-string and the join put together, in order.                       *)
(***************************************************************************)
EXTENDS Integers, Sequences, FiniteSets, TLC

VARIABLES
    entry,           \* "script": run as __main__; "import": a caller imports the module
    environ,         \* the process environment after load_dotenv()
    TAVILY_API_KEY,  \* module global, line 11
    GROQ_API_KEY,    \* module global, line 12
    pc,              \* position of the program
    console,         \* what has been printed, in order
    query,           \* main's local variable query
    lastLine,        \* the last line input() returned
    nInputs,         \* calls of input() that returned or raised
    built,           \* objects form_crew has constructed for the current query
    crew,            \* the Crew form_crew returned for the current query
    nFormCrew,       \* calls of form_crew
    nKickoff,        \* calls of crew.kickoff
    iter,            \* tool calls the agent has made in the current kickoff
    lastSearch,      \* the last call of SearchTool._run: its inputs and outcome
    fs,              \* the files of the working directory
    interrupted      \* a KeyboardInterrupt has been raised inside main()

vars == <<entry, environ, TAVILY_API_KEY, GROQ_API_KEY, pc, console, query,
          lastLine, nInputs, built, crew, nFormCrew, nKickoff, iter, lastSearch,
          fs, interrupted>>

(***************************************************************************)
(* Bounds of the model.                                                    *)
(***************************************************************************)
MaxInputs == 3       \* lines read in one session

(***************************************************************************)
(* Python values.                                                          *)
(***************************************************************************)
None == <<"<None>">>         \* the object None where a character sequence may stand
PyNone == "<None>"           \* the object None where a copied string may stand

\* bool(v) for v a str or None
Truthy(v) == v # None /\ v # << >>

\* str(v) / f"{v}" for v a str or None
PyStr(v) == IF v = PyNone THEN "None" ELSE v

Whitespace == {" ", "\t"}

RECURSIVE LStrip(_)
LStrip(s) == IF s # << >> /\ Head(s) \in Whitespace THEN LStrip(Tail(s)) ELSE s

RECURSIVE RStrip(_)
RStrip(s) ==
    IF s # << >> /\ s[Len(s)] \in Whitespace
    THEN RStrip(SubSeq(s, 1, Len(s) - 1))
    ELSE s

\* str.strip()
Strip(s) == RStrip(LStrip(s))

LowerChar(c) ==
    CASE c = "E" -> "e"
      [] c = "X" -> "x"
      [] c = "I" -> "i"
      [] c = "T" -> "t"
      [] c = "Q" -> "q"
      [] c = "U" -> "u"
      [] c = "S" -> "s"
      [] OTHER -> c

\* str.lower()
Lower(s) == [i \in 1..Len(s) |-> LowerChar(s[i])]

Min(a, b) == IF a < b THEN a ELSE b

\* os.getenv(name); environ is a set of <<name, value>> pairs, one per name at most
Getenv(name) ==
    IF \E p \in environ : p[1] = name
    THEN (CHOOSE p \in environ : p[1] = name)[2]
    ELSE None

(***************************************************************************)
(* Exceptions: a type and the text str(e) gives.  KeyboardInterrupt is a   *)
(* BaseException that is not an Exception.                                 *)
(***************************************************************************)
Exc(t, m) == [type |-> t, msg |-> m]
NoExc == Exc("", "")
KeyboardInterrupt == Exc("KeyboardInterrupt", "")
ExceptionTypes == {"ValueError", "KeyError", "ConnectionError", "RuntimeError", "EOFError"}

\* isinstance(e, Exception)
IsException(e) == e.type \in ExceptionTypes

(***************************************************************************)
(* The search API, as SearchTool._run sees it: the client constructor and  *)
(* the search call either raise or go through, and a response is a dict    *)
(* that may lack 'results' or 'answer', with items that may lack 'title'   *)
(* or 'url'.  A dict is a record whose DOMAIN is the keys it has.          *)
(***************************************************************************)
max_results == 5

Item(i) == [title |-> "t" \o ToString(i), url |-> "u" \o ToString(i), content |-> "c"]

DropKeys(d, ks) == [k \in DOMAIN d \ ks |-> d[k]]

\* result lists of n items in rank order, item bad (if any) lacking the keys ks
ResultList(n, bad, ks) ==
    [i \in 1..n |-> IF i = bad THEN DropKeys(Item(i), ks) ELSE Item(i)]

ResultLists ==
    {ResultList(n, 0, {}) : n \in 0..max_results}
    \cup {ResultList(n, b, ks) : n \in 1..max_results, b \in 1..max_results,
                                ks \in {{"title"}, {"url"}, {"title", "url"}}}

Answers == {PyNone, "", "ans"}

Responses ==
    {[query |-> "q", results |-> r, answer |-> a] : r \in ResultLists, a \in Answers}
    \cup {[query |-> "q", results |-> r] : r \in ResultLists}
    \cup {[query |-> "q", answer |-> a] : a \in Answers}
    \cup {[query |-> "q"]}

NoResponse == [query |-> ""]

\* what one call of the API does: TavilyClient(...) raises, tav.search(...) raises,
\* or tav.search(...) returns resp
ApiOutcomes ==
    {[ctor |-> Exc("ValueError", "invalid client configuration"), search |-> NoExc,
      resp |-> NoResponse],
     [ctor |-> NoExc, search |-> Exc("ConnectionError", "network unreachable"),
      resp |-> NoResponse],
     [ctor |-> NoExc, search |-> KeyboardInterrupt, resp |-> NoResponse]}
    \cup {[ctor |-> NoExc, search |-> NoExc, resp |-> r] : r \in Responses}

\* line 36; the warning sign emoji that opens the marker is written (!) here
SearchFailedMarker == "(!) Search failed. Error: "
Fallback == "I found these resources:"
TopLinks == "\n\nTop Links:\n"

\* "\n\n".join(links), links a sequence of sequences of pieces
RECURSIVE Join(_)
Join(links) ==
    IF links = << >> THEN << >>
    ELSE IF Len(links) = 1 THEN links[1]
    ELSE links[1] \o <<"\n\n">> \o Join(Tail(links))

\* variant: the entry is numbered with the 0-based index itself
LinkZeroBased(i, item) == <<ToString(i), ". ", item.title, "\n   ", item.url>>

\* f"{i+1}. {item['title']}\n   {item['url']}" with i the 0-based index
Link(i, item) == <<ToString(i + 1), ". ", item.title, "\n   ", item.url>>

\* the first KeyError the list comprehension of lines 31-32 raises over top, or NoExc
RECURSIVE LinkError(_)
LinkError(top) ==
    IF top = << >> THEN NoExc
    ELSE IF "title" \notin DOMAIN Head(top) THEN Exc("KeyError", "'title'")
    ELSE IF "url" \notin DOMAIN Head(top) THEN Exc("KeyError", "'url'")
    ELSE LinkError(Tail(top))

Outcome(e, v, b, s) == [exc |-> e, value |-> v, clientBuilt |-> b, requestSent |-> s]

\* the body of the try of SearchTool._run
RunTry(key, api) ==
    IF ~Truthy(key) THEN
        Outcome(Exc("ValueError", "Tavily API key not found"), << >>, FALSE, FALSE)
    ELSE IF api.ctor # NoExc THEN Outcome(api.ctor, << >>, FALSE, FALSE)
    ELSE IF api.search # NoExc THEN Outcome(api.search, << >>, TRUE, TRUE)
    ELSE LET result == api.resp IN
        IF "results" \notin DOMAIN result THEN
            Outcome(Exc("KeyError", "'results'"), << >>, TRUE, TRUE)
        ELSE LET top == SubSeq(result.results, 1, Min(3, Len(result.results)))
                 err == LinkError(top)
             IN IF err # NoExc THEN Outcome(err, << >>, TRUE, TRUE)
                ELSE LET links == [i \in 1..Len(top) |-> Link(i - 1, top[i])]
                         answer == IF "answer" \in DOMAIN result
                                   THEN result.answer ELSE Fallback
                     IN Outcome(NoExc, <<PyStr(answer), TopLinks>> \o Join(links),
                                TRUE, TRUE)

\* variant: the handler is "except ValueError" instead of "except Exception"
SearchTool_runValueErrorOnly(key, api) ==
    LET t == RunTry(key, api) IN
        IF t.exc = NoExc THEN t
        ELSE IF t.exc.type = "ValueError" THEN
            Outcome(NoExc, <<SearchFailedMarker, t.exc.msg>>, t.clientBuilt, t.requestSent)
        ELSE t

\* SearchTool._run(query): exc is what the call raises to its caller (NoExc when
\* it returns), value the string it returns
SearchTool_run(key, api) ==
    LET t == RunTry(key, api) IN
        IF t.exc = NoExc THEN t
        ELSE IF IsException(t.exc) THEN
            Outcome(NoExc, <<SearchFailedMarker, t.exc.msg>>, t.clientBuilt, t.requestSent)
        ELSE t

(***************************************************************************)
(* Model provider and crew set-up.                                         *)
(***************************************************************************)
max_iter == 3

\* variant: the handle is built without looking at the key first
set_llmUnchecked(key) == [exc |-> NoExc, api_key |-> Strip(key)]

\* set_llm(): the ChatOpenAI handle, or the exception raised
set_llm(key) ==
    IF ~Truthy(key)
    THEN [exc |-> Exc("ValueError", "Groq API key not found in environment variables"),
          api_key |-> << >>]
    ELSE [exc |-> NoExc, api_key |-> Strip(key)]

\* variant: the output file is named after the query
TaskOutputFilePerQuery(q) == IF q = <<"a">> THEN "other.md" ELSE "research_output.md"

\* Task(..., output_file=...)
TaskOutputFile(q) == "research_output.md"

NoCrew == [api_key |-> << >>, topic |-> << >>, output_file |-> "", max_iter |-> 0]

\* form_crew(query): the objects constructed, the Crew returned, the exception raised
form_crew(q, key) ==
    LET llm == set_llm(key) IN
        IF llm.exc # NoExc
        THEN [exc |-> llm.exc, built |-> {}, crew |-> NoCrew]
        ELSE [exc |-> NoExc,
              built |-> {"llm", "agent", "tool", "task", "crew"},
              crew |-> [api_key |-> llm.api_key, topic |-> q,
                        output_file |-> TaskOutputFile(q), max_iter |-> max_iter]]

(***************************************************************************)
(* Files.  The framework writes the task's final text to output_file when  *)
(* the task completes, replacing what the file held.                       *)
(***************************************************************************)
Paths == {"research_output.md", "other.md"}
NoFile == [exists |-> FALSE, content |-> << >>]
File(c) == [exists |-> TRUE, content |-> c]

SaveFile(files, path, text) == [files EXCEPT ![path] = File(<<text>>)]

(***************************************************************************)
(* The interactive runner.                                                 *)
(***************************************************************************)
Line(kind, text) == [kind |-> kind, text |-> text]

Banner == Line("banner", "AI Research Assistant (Ctrl+C or 'exit' to stop)")
PromptLine == Line("prompt", "What would you like to research? ")
Researching == Line("status", "Researching... please wait...")
ResultHeader == Line("status", "Research Result:")
Farewell == Line("farewell", "Exiting...")

ExitKeywords == {<<"e", "x", "i", "t">>, <<"q", "u", "i", "t">>}

\* variant: the generic handler leaves the loop after printing the error
MainExceptBreaks(e) ==
    IF e = KeyboardInterrupt THEN [pc |-> "done", out |-> <<Farewell>>]
    ELSE IF IsException(e) THEN [pc |-> "done", out |-> <<Line("error", e.msg)>>]
    ELSE [pc |-> "crashed", out |-> << >>]

\* variant: a single "except BaseException" handler that prints the error and loops
MainExceptCatchAll(e) == [pc |-> "loop", out |-> <<Line("error", e.msg)>>]

\* the except clauses of main(): where the loop goes and what is printed
MainExcept(e) ==
    IF e = KeyboardInterrupt THEN [pc |-> "done", out |-> <<Farewell>>]
    ELSE IF IsException(e) THEN [pc |-> "loop", out |-> <<Line("error", e.msg)>>]
    ELSE [pc |-> "crashed", out |-> << >>]

\* the lines a user may type
Lines ==
    {<< >>, <<" ">>, <<"a">>,
     <<"e", "x", "i", "t">>, <<"E", "X", "I", "T">>,
     <<" ", "Q", "u", "i", "t", " ">>,
     <<"e", "x", "i", "t", "s">>}

NoLine == <<"<none>">>

\* the final texts a kickoff may return
Results == {"r1", "r2"}

\* what crew.kickoff() may raise by itself
KickoffErrors ==
    {Exc("ConnectionError", "model API unreachable"),
     Exc("RuntimeError", "framework error")}

\* the API outcomes the agent's tool calls meet in a session
SessionApiOutcomes ==
    {a \in ApiOutcomes :
        \/ a.search # NoExc
        \/ a.resp \in {[query |-> "q"],
                        [query |-> "q", results |-> ResultList(max_results, 0, {}),
                         answer |-> "ans"]}}

NoSearch == [key |-> None, api |-> [ctor |-> NoExc, search |-> NoExc, resp |-> NoResponse],
             out |-> Outcome(NoExc, << >>, FALSE, FALSE), called |-> FALSE]

GroqValues == {<< >>, <<"k", " ">>}
TavilyValues == {<< >>, <<"k">>}

Environs ==
    {g \cup t : g \in {{}} \cup {{<<"GROQ_API_KEY", v>>} : v \in GroqValues},
                t \in {{}} \cup {{<<"TAVILY_API_KEY", v>>} : v \in TavilyValues}}

\* the module has been loaded (lines 10-12); nothing has run yet
Loaded ==
    /\ environ \in Environs
    /\ TAVILY_API_KEY = Getenv("TAVILY_API_KEY")
    /\ GROQ_API_KEY = Getenv("GROQ_API_KEY")
    /\ console = << >>
    /\ query = NoLine
    /\ lastLine = NoLine
    /\ nInputs = 0
    /\ built = {}
    /\ crew = NoCrew
    /\ nFormCrew = 0
    /\ nKickoff = 0
    /\ iter = 0
    /\ lastSearch = NoSearch
    /\ fs \in {[p \in Paths |-> NoFile],
               [p \in Paths |-> IF p = "research_output.md" THEN File(<<"old">>) ELSE NoFile]}
    /\ interrupted = FALSE

Init ==
    /\ Loaded
    /\ entry \in {"script", "import"}
    /\ pc = "start"

\* variant: the guard looks at GROQ_API_KEY only
MainGuardGroqOnly ==
    /\ pc = "start" /\ entry = "script"
    /\ IF ~Truthy(Getenv("GROQ_API_KEY")) THEN
           /\ console' = Append(console, Line("error", "GROQ_API_KEY not found in .env file"))
           /\ pc' = "done"
       ELSE
           /\ console' = console
           /\ pc' = "main"
    /\ UNCHANGED <<entry, environ, TAVILY_API_KEY, GROQ_API_KEY, query, lastLine, nInputs,
                   built, crew, nFormCrew, nKickoff, iter, lastSearch, fs, interrupted>>

\* lines 118-125
MainGuard ==
    /\ pc = "start" /\ entry = "script"
    /\ IF ~Truthy(Getenv("GROQ_API_KEY")) THEN
           /\ console' = Append(console, Line("error", "GROQ_API_KEY not found in .env file"))
           /\ pc' = "done"
       ELSE IF ~Truthy(Getenv("TAVILY_API_KEY")) THEN
           /\ console' = Append(console, Line("error", "TAVILY_API_KEY not found in .env file"))
           /\ pc' = "done"
       ELSE
           /\ console' = console
           /\ pc' = "main"
    /\ UNCHANGED <<entry, environ, TAVILY_API_KEY, GROQ_API_KEY, query, lastLine, nInputs,
                   built, crew, nFormCrew, nKickoff, iter, lastSearch, fs, interrupted>>

\* a caller that imported the module calls main()
CallMain ==
    /\ pc = "start" /\ entry = "import"
    /\ pc' = "main"
    /\ UNCHANGED <<entry, environ, TAVILY_API_KEY, GROQ_API_KEY, console, query, lastLine,
                   nInputs, built, crew, nFormCrew, nKickoff, iter, lastSearch, fs,
                   interrupted>>

\* line 98
PrintBanner ==
    /\ pc = "main"
    /\ console' = Append(console, Banner)
    /\ pc' = "loop"
    /\ UNCHANGED <<entry, environ, TAVILY_API_KEY, GROQ_API_KEY, query, lastLine, nInputs,
                   built, crew, nFormCrew, nKickoff, iter, lastSearch, fs, interrupted>>

\* variant: the typed line is lower-cased but not stripped before the comparison
ReadLineNoStrip ==
    /\ pc = "loop" /\ nInputs < MaxInputs
    /\ \E line \in Lines :
        /\ query' = line
        /\ lastLine' = line
        /\ IF Lower(line) \in ExitKeywords THEN
               /\ console' = Append(console, PromptLine)
               /\ pc' = "done"
           ELSE
               /\ console' = console \o <<PromptLine, Researching>>
               /\ pc' = "form_crew"
    /\ nInputs' = nInputs + 1
    /\ UNCHANGED <<entry, environ, TAVILY_API_KEY, GROQ_API_KEY, built, crew, nFormCrew,
                   nKickoff, iter, lastSearch, fs, interrupted>>

\* variant: a blank line is skipped ("if not query.strip(): continue")
ReadLineSkipsBlank ==
    /\ pc = "loop" /\ nInputs < MaxInputs
    /\ \E line \in Lines :
        /\ query' = line
        /\ lastLine' = line
        /\ IF Lower(Strip(line)) \in ExitKeywords THEN
               /\ console' = Append(console, PromptLine)
               /\ pc' = "done"
           ELSE IF Strip(line) = << >> THEN
               /\ console' = Append(console, PromptLine)
               /\ pc' = "loop"
           ELSE
               /\ console' = console \o <<PromptLine, Researching>>
               /\ pc' = "form_crew"
    /\ nInputs' = nInputs + 1
    /\ UNCHANGED <<entry, environ, TAVILY_API_KEY, GROQ_API_KEY, built, crew, nFormCrew,
                   nKickoff, iter, lastSearch, fs, interrupted>>

\* lines 101-105: input() returns line
ReadLine ==
    /\ pc = "loop" /\ nInputs < MaxInputs
    /\ \E line \in Lines :
        /\ query' = line
        /\ lastLine' = line
        /\ IF Lower(Strip(line)) \in ExitKeywords THEN
               /\ console' = Append(console, PromptLine)
               /\ pc' = "done"
           ELSE
               /\ console' = console \o <<PromptLine, Researching>>
               /\ pc' = "form_crew"
    /\ nInputs' = nInputs + 1
    /\ UNCHANGED <<entry, environ, TAVILY_API_KEY, GROQ_API_KEY, built, crew, nFormCrew,
                   nKickoff, iter, lastSearch, fs, interrupted>>

\* line 101: input() raises e (end of input, or Ctrl+C at the prompt)
InputRaises ==
    /\ pc = "loop" /\ nInputs < MaxInputs
    /\ \E e \in {Exc("EOFError", "EOF when reading a line"), KeyboardInterrupt} :
        /\ console' = console \o <<PromptLine>> \o MainExcept(e).out
        /\ pc' = MainExcept(e).pc
        /\ interrupted' = (interrupted \/ e = KeyboardInterrupt)
    /\ nInputs' = nInputs + 1
    /\ UNCHANGED <<entry, environ, TAVILY_API_KEY, GROQ_API_KEY, query, lastLine, built,
                   crew, nFormCrew, nKickoff, iter, lastSearch, fs>>

\* line 106, and line 107 up to the agent's first step
FormCrew ==
    /\ pc = "form_crew"
    /\ LET r == form_crew(query, GROQ_API_KEY) IN
        /\ built' = r.built
        /\ crew' = r.crew
        /\ nFormCrew' = nFormCrew + 1
        /\ IF r.exc # NoExc THEN
               /\ console' = console \o MainExcept(r.exc).out
               /\ pc' = MainExcept(r.exc).pc
               /\ nKickoff' = nKickoff
           ELSE
               /\ console' = console
               /\ pc' = "kickoff"
               /\ nKickoff' = nKickoff + 1
    /\ iter' = 0
    /\ lastSearch' = NoSearch
    /\ UNCHANGED <<entry, environ, TAVILY_API_KEY, GROQ_API_KEY, query, lastLine, nInputs,
                   fs, interrupted>>

\* inside crew.kickoff(): the agent calls the search tool (at most max_iter times)
ToolCall ==
    /\ pc = "kickoff" /\ iter < crew.max_iter
    /\ \E api \in SessionApiOutcomes :
        LET r == SearchTool_run(TAVILY_API_KEY, api) IN
            /\ lastSearch' = [key |-> TAVILY_API_KEY, api |-> api, out |-> r, called |-> TRUE]
            /\ IF r.exc # NoExc THEN
                   /\ console' = console \o MainExcept(r.exc).out
                   /\ pc' = MainExcept(r.exc).pc
               ELSE
                   /\ console' = console
                   /\ pc' = pc
            /\ interrupted' = (interrupted \/ r.exc = KeyboardInterrupt)
    /\ iter' = iter + 1
    /\ UNCHANGED <<entry, environ, TAVILY_API_KEY, GROQ_API_KEY, query, lastLine, nInputs,
                   built, crew, nFormCrew, nKickoff, fs>>

\* lines 107-110: crew.kickoff() returns the final text, which the task has saved
KickoffReturns ==
    /\ pc = "kickoff"
    /\ \E text \in Results :
        /\ fs' = SaveFile(fs, crew.output_file, text)
        /\ console' = console \o <<ResultHeader, Line("result", text)>>
    /\ pc' = "loop"
    /\ UNCHANGED <<entry, environ, TAVILY_API_KEY, GROQ_API_KEY, query, lastLine, nInputs,
                   built, crew, nFormCrew, nKickoff, iter, lastSearch, interrupted>>

\* line 107: crew.kickoff() raises e
KickoffRaises ==
    /\ pc = "kickoff"
    /\ \E e \in KickoffErrors :
        /\ console' = console \o MainExcept(e).out
        /\ pc' = MainExcept(e).pc
    /\ UNCHANGED <<entry, environ, TAVILY_API_KEY, GROQ_API_KEY, query, lastLine, nInputs,
                   built, crew, nFormCrew, nKickoff, iter, lastSearch, fs, interrupted>>

\* Ctrl+C while lines 105-110 run
Interrupted ==
    /\ pc \in {"form_crew", "kickoff"}
    /\ console' = console \o MainExcept(KeyboardInterrupt).out
    /\ pc' = MainExcept(KeyboardInterrupt).pc
    /\ interrupted' = TRUE
    /\ UNCHANGED <<entry, environ, TAVILY_API_KEY, GROQ_API_KEY, query, lastLine, nInputs,
                   built, crew, nFormCrew, nKickoff, iter, lastSearch, fs>>

Next ==
    \/ MainGuard
    \/ CallMain
    \/ PrintBanner
    \/ ReadLine
    \/ InputRaises
    \/ FormCrew
    \/ ToolCall
    \/ KickoffReturns
    \/ KickoffRaises
    \/ Interrupted

Spec == Init /\ [][Next]_vars

(***************************************************************************)
(* The search tool on its own: a caller (the framework, a test) holds a    *)
(* SearchTool and calls _run, whatever the environment was at load time.   *)
(***************************************************************************)
InitSearch ==
    /\ Loaded
    /\ entry = "import"
    /\ pc = "tool"

SearchCall ==
    /\ pc = "tool"
    /\ \E api \in ApiOutcomes :
        lastSearch' = [key |-> TAVILY_API_KEY, api |-> api,
                       out |-> SearchTool_run(TAVILY_API_KEY, api), called |-> TRUE]
    /\ UNCHANGED <<entry, environ, TAVILY_API_KEY, GROQ_API_KEY, pc, console, query,
                   lastLine, nInputs, built, crew, nFormCrew, nKickoff, iter, fs,
                   interrupted>>

NextSearch == SearchCall

SpecSearch == InitSearch /\ [][NextSearch]_vars

(***************************************************************************)
(* Properties.  Each is stated from what a user or caller can observe: the *)
(* environment, the typed line, the API's answer, the console, the files.  *)
(***************************************************************************)
\* the credential name is set in the environment to a non-empty string
Present(name) == \E p \in environ : p[1] = name /\ p[2] # << >>

BothPresent == Present("GROQ_API_KEY") /\ Present("TAVILY_API_KEY")

Printed(l) == \E i \in 1..Len(console) : console[i] = l
PrintedKind(k) == \E i \in 1..Len(console) : console[i].kind = k
LastPrinted == console[Len(console)]

EnteredMain == pc = "main" \/ Printed(Banner)

\* the typed lines that are an exit keyword once trimmed and lower-cased, and the others
ExitTyped ==
    {<<"e", "x", "i", "t">>, <<"E", "X", "I", "T">>, <<" ", "Q", "u", "i", "t", " ">>}
BlankTyped == {<< >>, <<" ">>}
OtherTyped == {<<"a">>, <<"e", "x", "i", "t", "s">>}

Processing == {"form_crew", "kickoff"}

\* a step in which input() returned a line
LineRead ==
    /\ pc = "loop"
    /\ nInputs' = nInputs + 1
    /\ Len(console') > Len(console)
    /\ console'[Len(console')].kind \in {"prompt", "status"}

\* C1: run as a script, main() is entered if and only if both credentials are
\* present and non-empty; otherwise one error line is printed, the program is
\* over, and no prompt was issued and no orchestration was built or run.
C1_StartupGuard ==
    (entry = "script" /\ pc # "start") =>
        /\ EnteredMain <=> BothPresent
        /\ ~BothPresent =>
              /\ pc = "done"
              /\ Len(console) = 1 /\ console[1].kind = "error"
              /\ console[1].text =
                    IF ~Present("GROQ_API_KEY")
                    THEN "GROQ_API_KEY not found in .env file"
                    ELSE "TAVILY_API_KEY not found in .env file"
              /\ nInputs = 0 /\ nFormCrew = 0 /\ nKickoff = 0

C1_Witness ==
    /\ entry = "script" /\ pc = "done"
    /\ Present("GROQ_API_KEY") /\ <<"TAVILY_API_KEY", << >>>> \in environ
    /\ console = <<Line("error", "TAVILY_API_KEY not found in .env file")>>

\* C2: a step that reads a line which is "exit" or "quit" once trimmed and
\* lower-cased ends the loop in that step, with only the prompt printed and
\* neither form_crew nor crew.kickoff called; and nothing happens once the loop
\* is over (no further prompt).
C2_ExitKeyword ==
    [][/\ (LineRead /\ lastLine' \in ExitTyped) =>
              /\ pc' = "done"
              /\ console' = Append(console, PromptLine)
              /\ nFormCrew' = nFormCrew /\ nKickoff' = nKickoff
              /\ built' = built /\ fs' = fs
       /\ pc # "done"]_vars

C2_Witness ==
    /\ lastLine = <<" ", "Q", "u", "i", "t", " ">>
    /\ pc = "done" /\ nInputs = 2 /\ nKickoff = 1
    /\ LastPrinted = PromptLine

\* C5: the Processing state is left in one of three ways only: the result is
\* printed and the loop goes on, the farewell is printed after an interrupt, or
\* exactly one error line is printed and the loop goes on to the next prompt.
\* The program never crashes, and a missing model credential is one such error.
C5_FailedQueryContinues ==
    [][/\ (pc \in Processing /\ pc' \notin Processing) =>
              \/ /\ pc' = "loop"
                 /\ \E t \in Results :
                       console' = console \o <<ResultHeader, Line("result", t)>>
              \/ /\ pc' = "done" /\ interrupted'
                 /\ console' = Append(console, Farewell)
              \/ /\ pc' = "loop" /\ ~interrupted'
                 /\ Len(console') = Len(console) + 1
                 /\ console'[Len(console')].kind = "error"
                 /\ SubSeq(console', 1, Len(console)) = console
       /\ (pc = "form_crew" /\ ~Present("GROQ_API_KEY") /\ ~interrupted') =>
              /\ pc' = "loop"
              /\ console' = Append(console,
                     Line("error", "Groq API key not found in environment variables"))
       /\ pc' # "crashed"]_vars

C5_Witness ==
    /\ pc = "kickoff" /\ nKickoff = 3
    /\ Printed(Line("error", "model API unreachable"))
    /\ Printed(Line("error", "framework error"))
    /\ ~PrintedKind("result")

\* C6: once a KeyboardInterrupt has been raised inside main(), at the prompt or
\* while a query is being processed, the loop is over and the farewell is the
\* last thing printed (so no prompt and no orchestration follows it).
C6_InterruptStops ==
    interrupted => pc = "done" /\ LastPrinted = Farewell

C6_Witness ==
    /\ interrupted /\ pc = "done"
    /\ nKickoff = 2 /\ iter = 2 /\ lastSearch.called
    /\ LastPrinted = Farewell

\* C7 as stated: a blank line never puts the runner in Processing.
C7_BlankStaysIdle ==
    lastLine \in BlankTyped => pc \notin Processing

\* C7 amended: a step that reads a line goes to Processing exactly when the line
\* is not an exit keyword, blank lines included, and the line is passed on
\* unchanged as the query.
C7_NonExitIsProcessed ==
    [][LineRead =>
          /\ lastLine' \in ExitTyped \cup BlankTyped \cup OtherTyped
          /\ (pc' = "form_crew") <=> (lastLine' \notin ExitTyped)
          /\ (pc' = "form_crew") => query' = lastLine']_vars

C7_Witness ==
    /\ pc = "kickoff" /\ query = <<" ">> /\ crew.topic = <<" ">>
    /\ nKickoff = 1

\* C8: the search client is built and the search request sent only when
\* TAVILY_API_KEY is present and non-empty; the model handle (and with it the
\* agent, the task and the crew) is built, and kickoff called, only when
\* GROQ_API_KEY is present and non-empty.
C8_CredentialBeforeCall ==
    /\ (lastSearch.out.clientBuilt \/ lastSearch.out.requestSent) =>
            Present("TAVILY_API_KEY")
    /\ (built # {} \/ crew # NoCrew \/ nKickoff > 0 \/ pc = "kickoff") =>
            Present("GROQ_API_KEY")

C8_Witness ==
    /\ ~Present("GROQ_API_KEY") /\ nFormCrew = 2
    /\ built = {} /\ nKickoff = 0
    /\ LastPrinted = Line("error", "Groq API key not found in environment variables")

\* the text of the last result printed, "" if none
RECURSIVE LastResultIn(_)
LastResultIn(c) ==
    IF c = << >> THEN ""
    ELSE IF c[Len(c)].kind = "result" THEN c[Len(c)].text
    ELSE LastResultIn(SubSeq(c, 1, Len(c) - 1))

\* C9: once a query has completed, research_output.md holds exactly the text
\* of the last completed query (the one last printed as the result), whatever
\* it held before; until then it is as it was at start-up.
C9_OutputOverwritten ==
    IF PrintedKind("result")
    THEN fs["research_output.md"] = File(<<LastResultIn(console)>>)
    ELSE fs["research_output.md"] \in {NoFile, File(<<"old">>)}

C9_Witness ==
    /\ \E i, j \in 1..Len(console) :
          i < j /\ console[i] = Line("result", "r1") /\ console[j] = Line("result", "r2")
    /\ LastPrinted.kind = "error"
    /\ fs["research_output.md"] = File(<<"r2">>)

(***************************************************************************)
(* Properties of SearchTool._run, over lastSearch: the key and the API     *)
(* outcome of the last call, and what the call returned or raised.         *)
(***************************************************************************)
KeySet(k) == k # None /\ k # << >>

HasResults(a) == a.ctor = NoExc /\ a.search = NoExc /\ "results" \in DOMAIN a.resp

\* the number of results the API returned
NResults(a) == Len(a.resp.results)

Shown(a) == IF NResults(a) < 3 THEN NResults(a) ELSE 3

\* the search went through and each result that is shown has a title and a url
SearchSucceeds(k, a) ==
    /\ KeySet(k) /\ HasResults(a)
    /\ \A i \in 1..Shown(a) : {"title", "url"} \subseteq DOMAIN a.resp.results[i]

\* the first shown result that lacks 'title' or 'url'
FirstBad(a) ==
    CHOOSE i \in 1..Shown(a) :
        /\ ~({"title", "url"} \subseteq DOMAIN a.resp.results[i])
        /\ \A j \in 1..(i - 1) : {"title", "url"} \subseteq DOMAIN a.resp.results[j]

\* the call raises an Exception inside the try
SearchFails(k, a) ==
    /\ ~SearchSucceeds(k, a)
    /\ KeySet(k) => a.search # KeyboardInterrupt

\* C3: when the call fails with an Exception (no key, the client or the request
\* raising, no 'results', or a shown item without 'title' or 'url'), _run
\* returns the marker followed by the exception's message and raises nothing.
C3_FailureIsReturned ==
    (lastSearch.called /\ SearchFails(lastSearch.key, lastSearch.api)) =>
        LET k == lastSearch.key
            a == lastSearch.api
            v == lastSearch.out.value
        IN /\ lastSearch.out.exc = NoExc
           /\ Len(v) = 2 /\ v[1] = SearchFailedMarker
           /\ v[2] = IF ~KeySet(k) THEN "Tavily API key not found"
                     ELSE IF a.ctor # NoExc THEN a.ctor.msg
                     ELSE IF a.search # NoExc THEN a.search.msg
                     ELSE IF "results" \notin DOMAIN a.resp THEN "'results'"
                     ELSE IF "title" \notin DOMAIN a.resp.results[FirstBad(a)]
                          THEN "'title'"
                     ELSE "'url'"

C3_Witness ==
    /\ lastSearch.called /\ KeySet(lastSearch.key)
    /\ HasResults(lastSearch.api) /\ NResults(lastSearch.api) = 5
    /\ "url" \notin DOMAIN lastSearch.api.resp.results[3]
    /\ "title" \in DOMAIN lastSearch.api.resp.results[3]
    /\ lastSearch.out.exc = NoExc
    /\ lastSearch.out.value = <<SearchFailedMarker, "'url'">>

\* C4: a successful search of N results returns, after the heading, exactly
\* min(N, 3) entries separated by blank lines, entry i being "i. ", the title
\* of result i, a line break and the URL of result i; nothing else follows.
C4_TopThreeLinks ==
    (lastSearch.called /\ SearchSucceeds(lastSearch.key, lastSearch.api)) =>
        LET a == lastSearch.api
            v == lastSearch.out.value
            k == Shown(a)
        IN /\ lastSearch.out.exc = NoExc
           /\ Len(v) = 2 + (IF k = 0 THEN 0 ELSE 6 * k - 1)
           /\ v[2] = TopLinks
           /\ \A i \in 1..k :
                LET b == 2 + 6 * (i - 1) IN
                    /\ v[b + 1] = ToString(i) /\ v[b + 2] = ". "
                    /\ v[b + 3] = a.resp.results[i].title
                    /\ v[b + 4] = "\n   "
                    /\ v[b + 5] = a.resp.results[i].url
                    /\ i < k => v[b + 6] = "\n\n"
           /\ \A j \in 1..Len(v) : v[j] \notin {"t4", "u4", "t5", "u5", "4", "5"}

C4_Witness ==
    /\ lastSearch.called /\ SearchSucceeds(lastSearch.key, lastSearch.api)
    /\ NResults(lastSearch.api) = 5
    /\ "title" \notin DOMAIN lastSearch.api.resp.results[4]
    /\ Len(lastSearch.out.value) = 19
    /\ lastSearch.out.value[15] = "3"

C4_WitnessFew ==
    /\ lastSearch.called /\ SearchSucceeds(lastSearch.key, lastSearch.api)
    /\ NResults(lastSearch.api) = 2
    /\ Len(lastSearch.out.value) = 13

\* C10: after a successful search the text before the heading is the API's
\* answer when it gave one, and the fallback phrase when it gave none: the
\* 'answer' key missing, or present but null or empty.
C10_FallbackWhenNoAnswer ==
    (lastSearch.called /\ SearchSucceeds(lastSearch.key, lastSearch.api)) =>
        LET r == lastSearch.api.resp IN
            lastSearch.out.value[1] =
                IF "answer" \in DOMAIN r /\ r.answer \notin {PyNone, ""}
                THEN r.answer ELSE Fallback

\* what the code does instead: the fallback stands only for a missing key
C10_FallbackWhenKeyMissing ==
    (lastSearch.called /\ SearchSucceeds(lastSearch.key, lastSearch.api)) =>
        LET r == lastSearch.api.resp IN
            lastSearch.out.value[1] =
                IF "answer" \notin DOMAIN r THEN Fallback
                ELSE IF r.answer = PyNone THEN "None"
                ELSE r.answer

====
